---- MODULE Spec2Model ----
(***************************************************************************)
(* A model of the Snake game: Direction (direction.rs), Object             *)
(* (object.rs), Snake (snake.rs) and Game (game.rs).                       *)
(*                                                                         *)
(* The state is the Game struct (with the Snake struct as a record), the   *)
(* monotonic clock the game reads, and a history record of what the last   *)
(* step did.  The steps are: one keyboard message handed to                *)
(* Game::execute_input by Game::handle_input, the rest of one frame        *)
(* (Game::tick after its input loop: handle_logic unless paused), and the  *)
(* passing of time.  A frame of the program is any number of execute_input *)
(* steps followed by one tick step.                                        *)
(***************************************************************************)
EXTENDS Integers, Sequences, FiniteSets

VARIABLES snake, fruit, score, game_over, paused,
          previous_snake_update_time, now, panicked, hist, since_update

vars == <<snake, fruit, score, game_over, paused,
          previous_snake_update_time, now, panicked, hist, since_update>>

----------------------------------------------------------------------------
(* Bounds.  The map is MAP_DIMENSIONS = (25, 25) in game.rs; the model      *)
(* keeps every formula in terms of the map's width and height and checks    *)
(* them on a small map.  The clock counts ClockHz units to the second and   *)
(* is followed up to MaxTime units.                                         *)
MapWidth == 3
MapHeight == 2
ClockHz == 10
MaxTime == 5

(* Program constants *)
STARTING_LENGTH == 5
SLITHERS_PER_SECOND == 15

MAP_DIMENSIONS == <<MapWidth, MapHeight>>
MAP_CENTRE == <<MAP_DIMENSIONS[1] \div 2, MAP_DIMENSIONS[2] \div 2>>
MapCells == MAP_DIMENSIONS[1] * MAP_DIMENSIONS[2]

STARTING_DIRECTIN == "East"
HORIZONTAL_GLYPH == "horizontal"
VERTICAL_GLYPH == "vertical"
CORNER_GLYPHS == <<"top_left", "top_right", "bottom_left", "bottom_right">>
COLOUR == "alive_colour"
DEAD_COLOUR == "dead_colour"
FRUIT_GLYPH == "*"
FRUIT_COLOUR == "fruit_colour"

Direction == {"North", "East", "South", "West"}

(* The key codes the game tells apart, and one it does not know. *)
MovementKeys == {"W", "A", "S", "D", "Up", "Down", "Left", "Right"}
PauseKeys == {"Escape", "P"}
VirtualKeyCode == MovementKeys \cup PauseKeys \cup {"R", "Space"}

(* impl TryFrom<VirtualKeyCode> for Direction *)
try_from(key) ==
    CASE key \in {"W", "Up"} -> "North"
      [] key \in {"A", "Left"} -> "West"
      [] key \in {"S", "Down"} -> "South"
      [] key \in {"D", "Right"} -> "East"
      [] OTHER -> "Err"

(* impl Into<Point> for Direction *)
into_point(d) ==
    CASE d = "North" -> <<0, -1>>
      [] d = "East" -> <<1, 0>>
      [] d = "South" -> <<0, 1>>
      [] d = "West" -> <<-1, 0>>

(* Point + Point *)
PointAdd(p, q) == <<p[1] + q[1], p[2] + q[2]>>

(* Object::new *)
Object(position, glyph, colour) ==
    [position |-> position, glyph |-> glyph, colour |-> colour]

(* Option<Object>: the empty sequence is None, <<o>> is Some(o) *)
None == <<>>
Some(o) == <<o>>

----------------------------------------------------------------------------
(* Snake *)

(* SnakeDefault with the head left on the spawn point *)
SnakeDefault_head_not_advanced ==
    LET spawn_point == <<MAP_CENTRE[1], MAP_CENTRE[2]>>
        body_segment == Object(spawn_point, HORIZONTAL_GLYPH, COLOUR)
    IN [body |-> [i \in 1..STARTING_LENGTH |-> body_segment],
        direction |-> STARTING_DIRECTIN,
        popped_tail |-> None,
        requires_corner_update |-> FALSE,
        alive |-> TRUE]

(* impl Default for Snake *)
SnakeDefault ==
    LET spawn_point == <<MAP_CENTRE[1], MAP_CENTRE[2]>>
        body_segment == Object(spawn_point, HORIZONTAL_GLYPH, COLOUR)
        rest == [i \in 1..(STARTING_LENGTH - 1) |-> body_segment]
        head == [body_segment EXCEPT
                   !.position = PointAdd(body_segment.position,
                                         into_point(STARTING_DIRECTIN))]
    IN [body |-> <<head>> \o rest,
        direction |-> STARTING_DIRECTIN,
        popped_tail |-> None,
        requires_corner_update |-> FALSE,
        alive |-> TRUE]

(* set_direction testing the head's own cell instead of the next one *)
set_direction_tests_head(s, direction) ==
    IF s.body[1].position # s.body[2].position
    THEN [s EXCEPT !.direction = direction, !.requires_corner_update = TRUE]
    ELSE s

(* set_direction that turns the snake without raising requires_corner_update *)
set_direction_flag_not_raised(s, direction) ==
    IF PointAdd(s.body[1].position, into_point(direction)) # s.body[2].position
    THEN [s EXCEPT !.direction = direction]
    ELSE s

(* Snake::set_direction *)
set_direction(s, direction) ==
    IF PointAdd(s.body[1].position, into_point(direction)) # s.body[2].position
    THEN [s EXCEPT !.direction = direction, !.requires_corner_update = TRUE]
    ELSE s

(* grow putting the popped tail in front of the head *)
grow_push_front(s) ==
    IF s.popped_tail # None
    THEN [s EXCEPT !.body = <<s.popped_tail[1]>> \o s.body]
    ELSE s

(* Snake::grow: popped_tail is read, never cleared *)
grow(s) ==
    IF s.popped_tail # None
    THEN [s EXCEPT !.body = Append(s.body, s.popped_tail[1])]
    ELSE s

(* update_corner_glyphs with the two glyphs of a turn to the east exchanged *)
update_corner_glyphs_east_exchanged(s) ==
    IF Len(s.body) > 2
    THEN
      LET n == Len(s.body)
          new_glyph == s.body[n - 1].glyph
          head == s.body[1]
          straight == {HORIZONTAL_GLYPH, VERTICAL_GLYPH}
          body1 == IF new_glyph \in straight /\ s.body[n].glyph \notin straight
                   THEN [s.body EXCEPT ![n].glyph = new_glyph]
                   ELSE s.body
      IN IF s.requires_corner_update
         THEN
           LET neck_1 == body1[3]
               neck_0 == body1[2]
               glyph ==
                 IF neck_1.position[1] # neck_0.position[1]
                 THEN
                   IF head.position[2] > neck_0.position[2]
                   THEN (IF neck_1.position[1] > neck_0.position[1]
                         THEN CORNER_GLYPHS[1] ELSE CORNER_GLYPHS[2])
                   ELSE IF head.position[2] < neck_0.position[2]
                   THEN (IF neck_1.position[1] > neck_0.position[1]
                         THEN CORNER_GLYPHS[3] ELSE CORNER_GLYPHS[4])
                   ELSE neck_0.glyph
                 ELSE IF neck_1.position[2] # neck_0.position[2]
                 THEN
                   IF head.position[1] > neck_0.position[1]
                   THEN (IF neck_1.position[2] > neck_0.position[2]
                         THEN CORNER_GLYPHS[3] ELSE CORNER_GLYPHS[1])
                   ELSE IF head.position[1] < neck_0.position[1]
                   THEN (IF neck_1.position[2] > neck_0.position[2]
                         THEN CORNER_GLYPHS[2] ELSE CORNER_GLYPHS[4])
                   ELSE neck_0.glyph
                 ELSE neck_0.glyph
           IN [s EXCEPT !.body = [body1 EXCEPT ![2].glyph = glyph],
                        !.requires_corner_update = FALSE]
         ELSE [s EXCEPT !.body = body1]
    ELSE s

(* Snake::update_corner_glyphs.  Indices are the source's plus one. *)
update_corner_glyphs(s) ==
    IF Len(s.body) > 2
    THEN
      LET n == Len(s.body)
          new_glyph == s.body[n - 1].glyph
          head == s.body[1]
          straight == {HORIZONTAL_GLYPH, VERTICAL_GLYPH}
          body1 == IF new_glyph \in straight /\ s.body[n].glyph \notin straight
                   THEN [s.body EXCEPT ![n].glyph = new_glyph]
                   ELSE s.body
      IN IF s.requires_corner_update
         THEN
           LET neck_1 == body1[3]
               neck_0 == body1[2]
               glyph ==
                 IF neck_1.position[1] # neck_0.position[1]
                 THEN
                   IF head.position[2] > neck_0.position[2]
                   THEN (IF neck_1.position[1] > neck_0.position[1]
                         THEN CORNER_GLYPHS[1] ELSE CORNER_GLYPHS[2])
                   ELSE IF head.position[2] < neck_0.position[2]
                   THEN (IF neck_1.position[1] > neck_0.position[1]
                         THEN CORNER_GLYPHS[3] ELSE CORNER_GLYPHS[4])
                   ELSE neck_0.glyph
                 ELSE IF neck_1.position[2] # neck_0.position[2]
                 THEN
                   IF head.position[1] > neck_0.position[1]
                   THEN (IF neck_1.position[2] > neck_0.position[2]
                         THEN CORNER_GLYPHS[1] ELSE CORNER_GLYPHS[3])
                   ELSE IF head.position[1] < neck_0.position[1]
                   THEN (IF neck_1.position[2] > neck_0.position[2]
                         THEN CORNER_GLYPHS[2] ELSE CORNER_GLYPHS[4])
                   ELSE neck_0.glyph
                 ELSE neck_0.glyph
           IN [s EXCEPT !.body = [body1 EXCEPT ![2].glyph = glyph],
                        !.requires_corner_update = FALSE]
         ELSE [s EXCEPT !.body = body1]
    ELSE s

(* out_of_bounds with > for >= *)
out_of_bounds_off_by_one(head) ==
    \/ head.position[1] < 0 \/ head.position[1] > MAP_DIMENSIONS[1]
    \/ head.position[2] < 0 \/ head.position[2] > MAP_DIMENSIONS[2]

(* The two tests at the top of Snake::update *)
out_of_bounds(head) ==
    \/ head.position[1] < 0 \/ head.position[1] >= MAP_DIMENSIONS[1]
    \/ head.position[2] < 0 \/ head.position[2] >= MAP_DIMENSIONS[2]

self_collision(body) ==
    \E j \in 2..Len(body) : body[j].position = body[1].position

(* update without the loop that gives the segments the dead colour *)
update_keeps_colour(s) ==
    LET alive1 == IF s.alive
                  THEN ~self_collision(s.body) /\ ~out_of_bounds(s.body[1])
                  ELSE FALSE
    IN IF alive1
       THEN
         LET old == s.body[1]
             head == [old EXCEPT
                        !.position = PointAdd(old.position, into_point(s.direction)),
                        !.glyph = IF s.direction \in {"North", "South"}
                                  THEN VERTICAL_GLYPH ELSE HORIZONTAL_GLYPH]
         IN update_corner_glyphs(
              [s EXCEPT !.alive = alive1,
                        !.popped_tail = Some(s.body[Len(s.body)]),
                        !.body = <<head>> \o SubSeq(s.body, 1, Len(s.body) - 1)])
       ELSE [s EXCEPT !.alive = alive1,
                      !.body = IF s.body = <<>> THEN <<>> ELSE Tail(s.body)]

(* update taking a dead snake's segments from the tail end *)
update_pop_back(s) ==
    LET alive1 == IF s.alive
                  THEN ~self_collision(s.body) /\ ~out_of_bounds(s.body[1])
                  ELSE FALSE
        body0 == IF s.alive /\ ~alive1
                 THEN [j \in 1..Len(s.body) |->
                          [s.body[j] EXCEPT !.colour = DEAD_COLOUR]]
                 ELSE s.body
    IN IF alive1
       THEN
         LET old == body0[1]
             head == [old EXCEPT
                        !.position = PointAdd(old.position, into_point(s.direction)),
                        !.glyph = IF s.direction \in {"North", "South"}
                                  THEN VERTICAL_GLYPH ELSE HORIZONTAL_GLYPH]
         IN update_corner_glyphs(
              [s EXCEPT !.alive = alive1,
                        !.popped_tail = Some(body0[Len(body0)]),
                        !.body = <<head>> \o SubSeq(body0, 1, Len(body0) - 1)])
       ELSE [s EXCEPT !.alive = alive1,
                      !.body = IF body0 = <<>> THEN <<>>
                               ELSE SubSeq(body0, 1, Len(body0) - 1)]

(* impl Obj for Snake: update *)
update(s) ==
    LET alive1 == IF s.alive
                  THEN ~self_collision(s.body) /\ ~out_of_bounds(s.body[1])
                  ELSE FALSE
        body1 == IF s.alive /\ ~alive1
                 THEN [j \in 1..Len(s.body) |->
                          [s.body[j] EXCEPT !.colour = DEAD_COLOUR]]
                 ELSE s.body
    IN IF alive1
       THEN
         LET old == body1[1]
             head == [old EXCEPT
                        !.position = PointAdd(old.position, into_point(s.direction)),
                        !.glyph = IF s.direction \in {"North", "South"}
                                  THEN VERTICAL_GLYPH ELSE HORIZONTAL_GLYPH]
         IN update_corner_glyphs(
              [s EXCEPT !.alive = alive1,
                        !.popped_tail = Some(body1[Len(body1)]),
                        !.body = <<head>> \o SubSeq(body1, 1, Len(body1) - 1)])
       ELSE [s EXCEPT !.alive = alive1,
                      !.body = IF body1 = <<>> THEN <<>> ELSE Tail(body1)]

----------------------------------------------------------------------------
(* Game *)

(* The cells in the order of the two loops of get_empty_points: y outside, *)
(* x inside.                                                               *)
Cell(i) == <<(i - 1) % MAP_DIMENSIONS[1], (i - 1) \div MAP_DIMENSIONS[1]>>

(* Iterator::any on snake_segment_points: the iterator is at segment it    *)
(* (it > Len(body) when used up); any() takes segments until one equals    *)
(* point and leaves the iterator after it, or uses the iterator up.        *)
iterator_any(body, it, point) ==
    LET hits == {j \in it..Len(body) : body[j].position = point}
    IN IF hits = {}
       THEN [found |-> FALSE, it |-> Len(body) + 1]
       ELSE LET j == CHOOSE h \in hits : \A k \in hits : h <= k
            IN [found |-> TRUE, it |-> j + 1]

(* The loops of get_empty_points from cell i on, with the one iterator     *)
(* snake_segment_points shared by all cells.                               *)
RECURSIVE empty_points_from(_, _, _, _)
empty_points_from(body, fruit_position, i, it) ==
    IF i > MapCells
    THEN <<>>
    ELSE LET point == Cell(i)
             r == iterator_any(body, it, point)
             rest == empty_points_from(body, fruit_position, i + 1, r.it)
         IN IF ~r.found /\ fruit_position # point
            THEN <<point>> \o rest
            ELSE rest

(* get_empty_points without the test on the fruit's own position *)
get_empty_points_fruit_not_excluded(body, fruit_position) ==
    empty_points_from(body, <<-1, -1>>, 1, 1)

(* get_empty_points with a fresh iterator over the segments for every cell *)
get_empty_points_fresh_iterator(body, fruit_position) ==
    SelectSeq([i \in 1..MapCells |-> Cell(i)],
              LAMBDA point : /\ \A j \in 1..Len(body) : body[j].position # point
                             /\ fruit_position # point)

(* Game::get_empty_points *)
get_empty_points(body, fruit_position) ==
    empty_points_from(body, fruit_position, 1, 1)


Range(seq) == {seq[i] : i \in 1..Len(seq)}
Positions(body) == [j \in 1..Len(body) |-> body[j].position]

(* What the last of Game::new, Game::reset and Game::handle_logic did (a    *)
(* key that does not reset, a paused frame and the passing of time leave   *)
(* it alone):                                                              *)
(*   built     "new" after Game::new, "reset" after Game::reset, else      *)
(*             "none"                                                      *)
(*   logic     Game::handle_logic ran                                      *)
(*   grew      Snake::grow was called                                      *)
(*   spawned   Game::spawn_fruit ran; segments are the positions of the    *)
(*             snake's segments when it ran, candidates the number of      *)
(*             points get_empty_points gave it                             *)
(*   updated   Snake::update ran                                           *)
(* since_update remembers, for the length of the body: len, its length     *)
(* after the last Snake::update (or after Game::new or Game::reset), and   *)
(* grew, whether Snake::grow has been called since.                        *)
Quiet ==
    [built |-> "none", logic |-> FALSE, grew |-> FALSE, spawned |-> FALSE,
     segments |-> <<>>, candidates |-> 0, updated |-> FALSE]

Spawned(h, body, points) ==
    [h EXCEPT !.spawned = TRUE, !.segments = Positions(body),
              !.candidates = Len(points)]

(* Game::new.  The fruit starts outside the map and spawn_fruit places it; *)
(* expect() on an empty choice is a panic.                                 *)
Init ==
    LET points == get_empty_points(SnakeDefault.body, <<-1, -1>>)
    IN /\ snake = SnakeDefault
       /\ score = 0
       /\ game_over = FALSE
       /\ paused = FALSE
       /\ now = 0
       /\ previous_snake_update_time = 0
       /\ hist = Spawned([Quiet EXCEPT !.built = "new"], SnakeDefault.body, points)
       /\ since_update = [len |-> Len(SnakeDefault.body), grew |-> FALSE]
       /\ IF points = <<>>
          THEN /\ panicked = TRUE
               /\ fruit = Object(<<-1, -1>>, FRUIT_GLYPH, FRUIT_COLOUR)
          ELSE /\ panicked = FALSE
               /\ \E p \in Range(points) :
                     fruit = Object(p, FRUIT_GLYPH, FRUIT_COLOUR)

(* Game::reset, called by execute_input *)
reset ==
    LET points == get_empty_points(SnakeDefault.body, fruit.position)
    IN /\ snake' = SnakeDefault
       /\ hist' = Spawned([Quiet EXCEPT !.built = "reset"], SnakeDefault.body, points)
       /\ since_update' = [len |-> Len(SnakeDefault.body), grew |-> FALSE]
       /\ paused' = paused
       /\ IF points = <<>>
          THEN /\ panicked' = TRUE
               /\ UNCHANGED <<fruit, previous_snake_update_time, score, game_over>>
          ELSE /\ panicked' = panicked
               /\ \E p \in Range(points) : fruit' = [fruit EXCEPT !.position = p]
               /\ previous_snake_update_time' = now
               /\ score' = 0
               /\ game_over' = FALSE

(* execute_input with the R arm outside the test on game_over *)
execute_input_reset_any_time(key_code) ==
    /\ ~panicked
    /\ now' = now
    /\ IF key_code = "R"
       THEN reset
       ELSE IF ~game_over
       THEN /\ UNCHANGED <<fruit, score, game_over, previous_snake_update_time,
                           panicked, hist, since_update>>
            /\ IF key_code \in MovementKeys
               THEN /\ snake' = IF snake.alive /\ ~paused
                                THEN set_direction(snake, try_from(key_code))
                                ELSE snake
                    /\ paused' = paused
               ELSE IF key_code \in PauseKeys
               THEN /\ paused' = ~paused
                    /\ snake' = snake
               ELSE UNCHANGED <<snake, paused>>
       ELSE UNCHANGED <<snake, fruit, score, game_over, paused,
                        previous_snake_update_time, panicked, hist, since_update>>

(* execute_input with the pause arm outside the test on game_over *)
execute_input_pause_any_time(key_code) ==
    /\ ~panicked
    /\ now' = now
    /\ IF key_code \in PauseKeys
       THEN /\ paused' = ~paused
            /\ UNCHANGED <<snake, fruit, score, game_over,
                           previous_snake_update_time, panicked, hist, since_update>>
       ELSE IF ~game_over
       THEN /\ UNCHANGED <<fruit, score, game_over, previous_snake_update_time,
                           panicked, hist, since_update, paused>>
            /\ snake' = IF key_code \in MovementKeys /\ snake.alive /\ ~paused
                        THEN set_direction(snake, try_from(key_code))
                        ELSE snake
       ELSE IF key_code = "R"
       THEN reset
       ELSE UNCHANGED <<snake, fruit, score, game_over, paused,
                        previous_snake_update_time, panicked, hist, since_update>>

(* Game::execute_input, once for every key-pressed message that            *)
(* Game::handle_input drains                                               *)
execute_input(key_code) ==
    /\ ~panicked
    /\ now' = now
    /\ IF ~game_over
       THEN /\ UNCHANGED <<fruit, score, game_over, previous_snake_update_time,
                           panicked, hist, since_update>>
            /\ IF key_code \in MovementKeys
               THEN /\ snake' = IF snake.alive /\ ~paused
                                THEN set_direction(snake, try_from(key_code))
                                ELSE snake
                    /\ paused' = paused
               ELSE IF key_code \in PauseKeys
               THEN /\ paused' = ~paused
                    /\ snake' = snake
               ELSE UNCHANGED <<snake, paused>>
       ELSE IF key_code = "R"
       THEN reset
       ELSE UNCHANGED <<snake, fruit, score, game_over, paused,
                        previous_snake_update_time, panicked, hist, since_update>>

(* update_snake's gate without the test on alive and game_over *)
update_due_time_only(s, over) ==
    (now - previous_snake_update_time) * SLITHERS_PER_SECOND > ClockHz

(* update_snake's gate with || between its two tests *)
update_due_either_test(s, over) ==
    (~s.alive \/ ~over)
    \/ (now - previous_snake_update_time) * SLITHERS_PER_SECOND > ClockHz

(* lost as soon as the head is off the map *)
lost_off_map(s) == ~s.alive \/ out_of_bounds(s.body[1])

(* The two conditions handle_logic stores in game_over *)
won(s) == Len(s.body) = MAP_DIMENSIONS[1] * MAP_DIMENSIONS[2]
lost(s) == ~s.alive

(* The gate of Game::update_snake.  update_delta is                        *)
(* (now - previous_snake_update_time) / ClockHz seconds, and the test      *)
(* update_delta > 1.0 / SLITHERS_PER_SECOND is multiplied out.             *)
update_due(s, over) ==
    (~s.alive \/ ~over)
    /\ (now - previous_snake_update_time) * SLITHERS_PER_SECOND > ClockHz

(* Game::handle_logic: the game-over check, the fruit, then update_snake *)
handle_logic ==
    LET over == IF ~game_over
                THEN won(snake) \/ lost(snake)
                ELSE game_over
        eaten == ~over /\ snake.body[1].position = fruit.position
        s1 == IF eaten THEN grow(snake) ELSE snake
        points == get_empty_points(s1.body, fruit.position)
        due == update_due(s1, over)
        h0 == [Quiet EXCEPT !.logic = TRUE, !.grew = eaten]
        h1 == IF eaten THEN Spawned(h0, s1.body, points) ELSE h0
    IN /\ game_over' = over
       /\ score' = IF eaten THEN score + 1 ELSE score
       /\ paused' = paused
       /\ IF eaten /\ points = <<>>
          THEN /\ panicked' = TRUE
               /\ snake' = s1
               /\ hist' = h1
               /\ since_update' = [since_update EXCEPT !.grew = TRUE]
               /\ UNCHANGED <<fruit, previous_snake_update_time>>
          ELSE /\ panicked' = panicked
               /\ \E p \in (IF eaten THEN Range(points) ELSE {fruit.position}) :
                     fruit' = [fruit EXCEPT !.position = p]
               /\ snake' = IF due THEN update(s1) ELSE s1
               /\ previous_snake_update_time' =
                     IF due THEN now ELSE previous_snake_update_time
               /\ hist' = [h1 EXCEPT !.updated = due]
               /\ since_update' =
                     IF due
                     THEN [len |-> Len(update(s1).body), grew |-> FALSE]
                     ELSE [since_update EXCEPT !.grew = @ \/ eaten]

(* tick without the test on paused *)
tick_logic_while_paused ==
    /\ ~panicked
    /\ now' = now
    /\ handle_logic

(* impl GameState for Game: tick, after handle_input has drained the       *)
(* messages.  handle_rendering writes only to the terminal.                *)
tick ==
    /\ ~panicked
    /\ now' = now
    /\ IF ~paused
       THEN handle_logic
       ELSE UNCHANGED <<snake, fruit, score, game_over, paused,
                        previous_snake_update_time, panicked, hist, since_update>>

(* The monotonic clock moves on *)
Elapse ==
    /\ ~panicked
    /\ now < MaxTime
    /\ now' = now + 1
    /\ UNCHANGED <<snake, fruit, score, game_over, paused,
                   previous_snake_update_time, panicked, hist, since_update>>

KeyPressed == \E key_code \in VirtualKeyCode : execute_input(key_code)

Next == KeyPressed \/ tick \/ Elapse

Spec == Init /\ [][Next]_vars

(* The game with frames that keep arriving: main_loop calls tick for every  *)
(* frame, and the frame rate (FRAMES_PER_SECOND) is above the clock's rate, *)
(* so the clock does not move on while the frame loop still has an update   *)
(* of the snake to run.  The clock is followed up to MaxFrameTime units.    *)
MaxFrameTime == 6

ElapseFramed ==
    /\ ~panicked
    /\ now < MaxFrameTime
    /\ ~((now - previous_snake_update_time) * SLITHERS_PER_SECOND > ClockHz)
    /\ now' = now + 1
    /\ UNCHANGED <<snake, fruit, score, game_over, paused,
                   previous_snake_update_time, panicked, hist, since_update>>

NextFramed == KeyPressed \/ tick \/ ElapseFramed

FramedSpec ==
    /\ Init
    /\ [][NextFramed]_vars
    /\ WF_vars(tick)
    /\ WF_vars(ElapseFramed)

----------------------------------------------------------------------------
(* Steps, as the properties below name them *)

(* a frame in which handle_logic runs *)
LogicStep == ~paused /\ now' = now /\ tick

(* a frame in which Snake::update runs *)
UpdateStep == LogicStep /\ hist'.updated

(* a key message that reaches Game::reset *)
ResetStep == game_over /\ execute_input("R")

(* a key message with one of the two pause keys *)
PauseKeyStep == \E key_code \in PauseKeys : execute_input(key_code)

HeadOf(s) == s.body[1]
OnMap(point) ==
    /\ point[1] \in 0..(MapWidth - 1)
    /\ point[2] \in 0..(MapHeight - 1)

----------------------------------------------------------------------------
(* C1: whenever spawn_fruit runs (at construction, at reset, after a fruit *)
(* is eaten), the position it gives the fruit is not the position of any   *)
(* segment the snake has at that moment.                                   *)
C1_FruitSpawnsOffSnake ==
    (hist.spawned /\ ~panicked) =>
        \A j \in 1..Len(hist.segments) : hist.segments[j] # fruit.position

(* C2: in every state with the snake alive (so in every state in which    *)
(* set_direction can be called, after whatever calls came before) the      *)
(* head's position plus the vector of the direction is not the position of *)
(* body[1], and the same is true of the snake that set_direction(d)        *)
(* returns, for every direction d; a call whose direction would put the    *)
(* head on body[1] leaves direction and requires_corner_update as they     *)
(* were, and any other call commits the direction.                         *)
C2_HeadsOffNeck(s) ==
    PointAdd(HeadOf(s).position, into_point(s.direction)) # s.body[2].position

C2_NoReversal ==
    (snake.alive /\ ~panicked) =>
        /\ C2_HeadsOffNeck(snake)
        /\ \A d \in Direction :
              LET after == set_direction(snake, d)
                  reverses == PointAdd(HeadOf(snake).position, into_point(d))
                                  = snake.body[2].position
              IN /\ C2_HeadsOffNeck(after)
                 /\ after.body = snake.body
                 /\ reverses => /\ after.direction = snake.direction
                                /\ after.requires_corner_update
                                      = snake.requires_corner_update
                 /\ ~reverses => /\ after.direction = d
                                 /\ after.requires_corner_update

(* C2's case: a turn has been accepted since the last update, and the      *)
(* direction back onto body[1] is one a key can ask for.                   *)
C2_Witness ==
    /\ snake.alive /\ ~paused /\ ~game_over
    /\ snake.requires_corner_update
    /\ snake.direction # STARTING_DIRECTIN
    /\ \E d \in Direction :
          PointAdd(HeadOf(snake).position, into_point(d)) = snake.body[2].position

(* C3: after each Snake::update that moves a live snake, the body is as    *)
(* long as it was after the update before (or after construction or reset) *)
(* unless grow() was called in between, and then it is longer by one.      *)
C3_LengthStep ==
    (UpdateStep /\ snake.alive /\ snake'.alive) =>
        Len(snake'.body) =
            since_update.len
            + (IF since_update.grew \/ hist'.grew THEN 1 ELSE 0)

C3_LengthAfterUpdate == [][C3_LengthStep]_vars

(* C4: when the head is off the map or on another segment, the next        *)
(* Snake::update sets alive to false; alive goes from false to true only   *)
(* by a reset, which builds a new snake.                                   *)
C4_Collided(s) ==
    \/ ~OnMap(HeadOf(s).position)
    \/ \E j \in 2..Len(s.body) : s.body[j].position = HeadOf(s).position

C4_DeathStep ==
    /\ (snake.alive /\ C4_Collided(snake) /\ UpdateStep) => ~snake'.alive
    /\ (~snake.alive /\ snake'.alive) => ResetStep

C4_DiesAndStaysDead == [][C4_DeathStep]_vars

(* C4's case: the last update found the collision and the snake is dead *)
C4_Witness ==
    /\ ~snake.alive /\ hist.updated
    /\ Len(snake.body) = STARTING_LENGTH - 1
    /\ \A j \in 1..Len(snake.body) : snake.body[j].colour = DEAD_COLOUR

(* C5: game_over goes from false to true only in a handle_logic step that  *)
(* finds the body as long as the map has cells or the snake not alive; it  *)
(* goes from true to false only by reset(); and reset() runs only for the  *)
(* R key while game_over is true.                                          *)
C5_GameOverStep ==
    /\ (~game_over /\ game_over') =>
          /\ LogicStep
          /\ Len(snake.body) = MapCells \/ ~snake.alive
    /\ (game_over /\ ~game_over') => ResetStep
    /\ reset => ResetStep

C5_GameOverSticky == [][C5_GameOverStep]_vars

(* C5's case: a reset has cleared game_over *)
C5_Witness == hist.built = "reset" /\ ~game_over /\ hist.logic = FALSE

(* C6: while paused, no frame and no key other than a pause key changes    *)
(* score, fruit, game_over, the last-update timestamp or the snake, and    *)
(* paused stays true; a pause key pressed while the game is not over flips *)
(* paused.                                                                 *)
C6_PauseStep ==
    /\ (paused /\ ~PauseKeyStep) =>
          UNCHANGED <<snake, fruit, score, game_over,
                      previous_snake_update_time, paused>>
    /\ (PauseKeyStep /\ ~game_over) =>
          /\ paused' = ~paused
          /\ UNCHANGED <<snake, fruit, score, game_over,
                         previous_snake_update_time>>

C6_PauseFreezes == [][C6_PauseStep]_vars

(* C6's case: paused long enough for an update to be due, with the fruit   *)
(* under the head                                                          *)
C6_Witness ==
    /\ paused /\ ~game_over /\ snake.alive
    /\ (now - previous_snake_update_time) * SLITHERS_PER_SECOND > ClockHz
    /\ HeadOf(snake).position = fruit.position

(* C7: right after Game::new and right after every reset() the snake has   *)
(* STARTING_LENGTH segments, its head at (MAP_CENTRE.x + 1, MAP_CENTRE.y), *)
(* direction East, alive, no popped tail and no pending corner update, and *)
(* game_over is false and score is 0.                                      *)
C7_Fresh(s, over, points) ==
    /\ Len(s.body) = 5
    /\ HeadOf(s).position = <<MAP_CENTRE[1] + 1, MAP_CENTRE[2]>>
    /\ s.direction = "East"
    /\ s.alive
    /\ s.popped_tail = <<>>
    /\ ~s.requires_corner_update
    /\ ~over
    /\ points = 0

C7_FreshGame ==
    /\ C7_Fresh(snake, game_over, score)
    /\ [][ResetStep => C7_Fresh(snake', game_over', score')]_vars

(* C7's case: a game that was played to its end and reset *)
C7_Witness ==
    /\ hist.built = "reset" /\ now > 0
    /\ C7_Fresh(snake, game_over, score)

(* C8: a handle_logic step adds exactly 1 to score exactly when the game   *)
(* is not over (not already, not won, not lost) and the head is on the     *)
(* fruit, and that step moves the fruit to another cell; no other step     *)
(* changes score except reset(), which sets it to 0.  So a frame that ate  *)
(* the fruit without moving the snake leaves the head off the new fruit,   *)
(* and the next frame cannot count it again.                               *)
C8_Eats ==
    /\ ~game_over
    /\ Len(snake.body) # MapCells
    /\ snake.alive
    /\ HeadOf(snake).position = fruit.position

C8_ScoreStep ==
    /\ score' = score => ~(C8_Eats /\ LogicStep)
    /\ score' # score =>
          \/ /\ C8_Eats /\ LogicStep
             /\ score' = score + 1
             /\ fruit'.position # fruit.position
          \/ ResetStep /\ score' = 0

C8_NotOnNewFruit ==
    (hist.logic /\ hist.grew /\ ~hist.updated /\ ~panicked) =>
        HeadOf(snake).position # fruit.position

C8_ScoreCountsFruit == [](C8_NotOnNewFruit) /\ [][C8_ScoreStep]_vars

(* C8's case: a second fruit was eaten in a frame that did not move the    *)
(* snake                                                                   *)
C8_Witness ==
    /\ hist.logic /\ hist.grew /\ ~hist.updated
    /\ score = 2

(* C9: a handle_logic step of a game that is not over and whose body is as *)
(* long as the map has cells sets game_over and leaves the snake alive;    *)
(* from then on, until reset, Snake::update does not run: the snake, the   *)
(* score and the last-update timestamp stay as they are.                   *)
C9_WinStep ==
    /\ (~game_over /\ Len(snake.body) = MapCells /\ LogicStep) =>
          /\ game_over'
          /\ snake.alive /\ snake'.alive
          /\ snake' = snake
    /\ (game_over /\ snake.alive /\ ~ResetStep) =>
          /\ game_over'
          /\ UNCHANGED <<snake, score, previous_snake_update_time>>
          /\ LogicStep => ~hist'.updated

C9_WinFreezes == [][C9_WinStep]_vars

(* C9's case: a won game in which an update has been due for a while *)
C9_Witness ==
    /\ game_over /\ snake.alive
    /\ Len(snake.body) = MapCells
    /\ hist.logic /\ ~hist.spawned
    /\ (now - previous_snake_update_time) * SLITHERS_PER_SECOND > ClockHz

(* C10: every call of spawn_fruit finds at least one candidate cell, so    *)
(* the panic "Failed to spawn fruit" does not happen; this includes the    *)
(* call made right after the growth that makes the body as long as the map *)
(* has cells.                                                              *)
C10_SpawnNeverFails ==
    /\ ~panicked
    /\ hist.spawned => hist.candidates >= 1

(* C10's case: spawn_fruit ran right after grow() made the body as long as *)
(* the map has cells, with a segment on every cell                         *)
C10_Witness ==
    /\ hist.logic /\ hist.grew /\ hist.spawned
    /\ Len(hist.segments) = MapCells
    /\ \A i \in 1..MapCells : \E j \in 1..Len(hist.segments) :
          hist.segments[j] = Cell(i)
    /\ ~panicked

(* C11: while the snake is not alive every segment left in its body has   *)
(* the dead colour, and while it is alive every segment has the live       *)
(* colour; once the snake is not alive, the next handle_logic step that    *)
(* runs sets game_over.                                                    *)
C11_Colours ==
    \A j \in 1..Len(snake.body) :
        snake.body[j].colour = IF snake.alive THEN COLOUR ELSE DEAD_COLOUR

C11_LossStep ==
    (~snake.alive /\ ~game_over /\ LogicStep) => game_over'

C11_DeadColourThenOver == [](C11_Colours) /\ [][C11_LossStep]_vars

(* C11's case: a lost game with segments still on the screen *)
C11_Witness ==
    /\ ~snake.alive /\ game_over
    /\ Len(snake.body) >= 2
    /\ hist.logic /\ ~hist.updated

(* C12: two grow() calls in a row, with no update() between them, lengthen  *)
(* the body by at most one segment: the second call adds nothing.  The     *)
(* calls are made on every snake the game reaches.                         *)
C12_SecondGrowAddsNothing ==
    LET once == grow(snake)
        twice == grow(once)
    IN /\ Len(once.body) <= Len(snake.body) + 1
       /\ Len(twice.body) = Len(once.body)

(* C13 as stated: in every reachable state with the snake alive, the head's *)
(* glyph is the vertical glyph when direction is North or South and the    *)
(* horizontal glyph when direction is East or West.                        *)
C13_GlyphOf(direction) ==
    IF direction \in {"North", "South"} THEN VERTICAL_GLYPH ELSE HORIZONTAL_GLYPH

C13_HeadGlyphAlways ==
    snake.alive => HeadOf(snake).glyph = C13_GlyphOf(snake.direction)

(* C13 amended: in every reachable state with the snake alive and no        *)
(* set_direction call accepted since the last update (requires_corner_      *)
(* update is false), the head's glyph is the one of the current direction.  *)
C13_HeadGlyphWhenSettled ==
    (snake.alive /\ ~snake.requires_corner_update)
        => HeadOf(snake).glyph = C13_GlyphOf(snake.direction)

(* C13's case: the snake has turned north or south and moved that way *)
C13_Witness ==
    /\ snake.alive /\ ~snake.requires_corner_update
    /\ hist.updated
    /\ snake.direction \in {"North", "South"}
    /\ HeadOf(snake).glyph = VERTICAL_GLYPH

(* C14: update() runs in a handle_logic step only if the time since the    *)
(* last-update timestamp is strictly more than 1/SLITHERS_PER_SECOND       *)
(* seconds and the game is not over or the snake is not alive; the         *)
(* timestamp is rewritten (to the current time) in exactly the steps in    *)
(* which update() runs, and in a reset, so two updates in a row are more   *)
(* than one slither period apart.                                          *)
C14_GateStep ==
    /\ (previous_snake_update_time' # previous_snake_update_time)
          => (UpdateStep \/ ResetStep)
    /\ (hist'.updated /\ UpdateStep)
          => /\ (now - previous_snake_update_time) * SLITHERS_PER_SECOND > ClockHz
             /\ ~game_over' \/ ~snake.alive
             /\ previous_snake_update_time' = now
             /\ previous_snake_update_time' # previous_snake_update_time

C14_UpdateGate == [][C14_GateStep]_vars

(* C14's case: an update that follows an earlier update *)
C14_Witness ==
    /\ hist.updated
    /\ previous_snake_update_time = now
    /\ now >= 2
    /\ Len(snake.body) = STARTING_LENGTH
    /\ snake.alive
    /\ snake.body[3].position # MAP_CENTRE

(* C15: once the snake is not alive, every update() that runs removes the  *)
(* segment at index 0 and leaves the others as they are and in order, and  *)
(* the body never grows again; the updates keep running after game_over is *)
(* set, so with frames that keep arriving and the game not paused the body *)
(* becomes empty, and an empty body stays empty.                           *)
C15_DeadStep ==
    ~snake.alive =>
        /\ snake'.alive => ResetStep
        /\ ~snake'.alive =>
              /\ snake'.body = snake.body
                 \/ (snake.body # <<>> /\ snake'.body = Tail(snake.body))
              /\ (snake'.body # snake.body) => UpdateStep
        /\ (hist'.updated /\ UpdateStep) =>
              snake'.body = IF snake.body = <<>> THEN <<>> ELSE Tail(snake.body)
        /\ ( /\ (now - previous_snake_update_time) * SLITHERS_PER_SECOND > ClockHz
             /\ LogicStep ) => hist'.updated

(* from a dead snake with clock units left for each of its segments *)
C15_Drains ==
    (~snake.alive /\ now + Len(snake.body) <= MaxFrameTime)
        ~> (snake.body = <<>> \/ paused \/ snake.alive)

C15_DeadSnakeDrains == [][C15_DeadStep]_vars /\ C15_Drains

(* C15's case: the updates after game over have emptied the body *)
C15_Witness ==
    /\ ~snake.alive /\ game_over
    /\ snake.body = <<>>
    /\ hist.updated

(* C16: while game_over is true every key other than R changes nothing;    *)
(* while game_over is false R changes nothing; a movement key changes      *)
(* nothing unless the snake is alive and the game is not paused, and then  *)
(* it acts only through set_direction with the key's direction; a key      *)
(* that is not a movement key, Escape, P or R never changes anything.      *)
C16_Ignored(key_code) ==
    \/ game_over /\ key_code # "R"
    \/ ~game_over /\ key_code \notin
          {"W", "A", "S", "D", "Up", "Down", "Left", "Right", "Escape", "P"}
    \/ /\ key_code \in {"W", "A", "S", "D", "Up", "Down", "Left", "Right"}
       /\ ~snake.alive \/ paused

C16_DirectionOf(key_code) ==
    CASE key_code \in {"W", "Up"} -> "North"
      [] key_code \in {"A", "Left"} -> "West"
      [] key_code \in {"S", "Down"} -> "South"
      [] key_code \in {"D", "Right"} -> "East"

(* what a key-pressed message can do in the current state *)
C16_KeyEffect ==
    \A key_code \in VirtualKeyCode :
        /\ C16_Ignored(key_code)
              => ~ENABLED (execute_input(key_code) /\ vars' # vars)
        /\ (key_code \in {"W", "A", "S", "D", "Up", "Down", "Left", "Right"}
              /\ ~C16_Ignored(key_code))
              => ~ENABLED ( /\ execute_input(key_code)
                            /\ snake' # set_direction(snake,
                                                      C16_DirectionOf(key_code)) )

C16_KeysIgnored == [](C16_KeyEffect)

(* C16's case: a lost game whose snake was steered before it died; from    *)
(* here on only R acts                                                     *)
C16_Witness ==
    /\ game_over /\ ~snake.alive
    /\ snake.direction # STARTING_DIRECTIN
    /\ snake.requires_corner_update

(* C17: after an update that moves a live snake through a 90-degree turn   *)
(* (index 2 on one side of the neck, the head on a perpendicular side) the *)
(* neck's glyph is the corner glyph that joins those two sides: index 2    *)
(* east and head south, or index 2 south and head east, glyph 0; index 2   *)
(* west and head south, or index 2 south and head west, glyph 1; index 2   *)
(* east and head north, or index 2 north and head east, glyph 2; index 2   *)
(* west and head north, or index 2 north and head west, glyph 3.  The      *)
(* update changes no glyph other than the head's, the neck's and the       *)
(* tail's, and carries every position and colour over unchanged.           *)
C17_Side(from, to) ==
    CASE to = <<from[1] + 1, from[2]>> -> "East"
      [] to = <<from[1] - 1, from[2]>> -> "West"
      [] to = <<from[1], from[2] + 1>> -> "South"
      [] to = <<from[1], from[2] - 1>> -> "North"
      [] OTHER -> "none"

C17_Joins(sides) ==
    CASE sides = {"East", "South"} -> CORNER_GLYPHS[1]
      [] sides = {"West", "South"} -> CORNER_GLYPHS[2]
      [] sides = {"East", "North"} -> CORNER_GLYPHS[3]
      [] sides = {"West", "North"} -> CORNER_GLYPHS[4]
      [] OTHER -> "none"

C17_Turn(s) ==
    {C17_Side(s.body[2].position, s.body[3].position),
     C17_Side(s.body[2].position, s.body[1].position)}

C17_NeckGlyph ==
    (snake.alive /\ C17_Joins(C17_Turn(snake)) # "none")
        => snake.body[2].glyph = C17_Joins(C17_Turn(snake))

C17_Repainted(s) ==
    LET u == update(s)
        n == Len(s.body)
    IN /\ Len(u.body) = n
       /\ u.body[1].colour = s.body[1].colour
       /\ u.body[1].glyph = C13_GlyphOf(s.direction)
       /\ \A j \in 2..n :
             /\ u.body[j].position = s.body[j - 1].position
             /\ u.body[j].colour = s.body[j - 1].colour
       /\ \A j \in 3..(n - 1) : u.body[j].glyph = s.body[j - 1].glyph

C17_Frame ==
    \A s \in {snake, grow(snake)} :
        (s.alive /\ ~C4_Collided(s)) => C17_Repainted(s)

C17_CornerGlyph == C17_NeckGlyph /\ C17_Frame

(* C17's case: the snake has just moved east out of a northward run *)
C17_Witness ==
    /\ snake.alive /\ hist.updated
    /\ C17_Turn(snake) = {"South", "East"}
    /\ snake.body[2].glyph = CORNER_GLYPHS[1]

(* C18: in every reachable state with the snake alive, the length of the   *)
(* body is STARTING_LENGTH plus the score.                                 *)
C18_LengthIsStartPlusScore ==
    snake.alive => Len(snake.body) = STARTING_LENGTH + score

(* C19 as stated: in every reachable state with the snake alive, every      *)
(* two consecutive segments are on orthogonally adjacent cells (Manhattan   *)
(* distance 1), from construction onward.                                   *)
C19_Distance(p, q) ==
    (IF p[1] >= q[1] THEN p[1] - q[1] ELSE q[1] - p[1])
    + (IF p[2] >= q[2] THEN p[2] - q[2] ELSE q[2] - p[2])

C19_ConsecutiveAdjacent ==
    snake.alive =>
        \A i \in 1..(Len(snake.body) - 1) :
            C19_Distance(snake.body[i].position, snake.body[i + 1].position) = 1

(* C19 amended: in every reachable state with the snake alive, the head and *)
(* the segment at index 1 are on orthogonally adjacent cells, and every     *)
(* other two consecutive segments are on adjacent cells or both on          *)
(* MAP_CENTRE, where construction puts all segments but the head; the       *)
(* segments that share MAP_CENTRE are the last ones of the body.            *)
C19_AdjacentOrStacked ==
    snake.alive =>
        /\ C19_Distance(snake.body[1].position, snake.body[2].position) = 1
        /\ \A i \in 2..(Len(snake.body) - 1) :
              \/ C19_Distance(snake.body[i].position,
                              snake.body[i + 1].position) = 1
              \/ \A j \in i..Len(snake.body) :
                    snake.body[j].position = MAP_CENTRE

(* C19's case: a snake that has moved and grown while part of the stack is  *)
(* still on MAP_CENTRE                                                      *)
C19_Witness ==
    /\ snake.alive /\ hist.updated
    /\ Len(snake.body) > STARTING_LENGTH
    /\ snake.body[Len(snake.body)].position = MAP_CENTRE
    /\ snake.body[Len(snake.body) - 1].position = MAP_CENTRE
    /\ C19_Distance(snake.body[2].position, snake.body[3].position) = 1

(* C20: paused and game_over are never both true: game_over is set only by *)
(* handle_logic, which runs only while the game is not paused, the pause   *)
(* keys act only while game_over is false, and reset leaves paused as it   *)
(* is; so a finished game can be restarted with R and the new game is not  *)
(* paused.                                                                 *)
C20_Exclusive == ~(paused /\ game_over)

(* the step that ends a finished game is a reset, and the new game runs *)
C20_RestartStep ==
    (game_over /\ ~game_over') => (ResetStep /\ ~paused')

C20_NotPausedAndOver == [](C20_Exclusive) /\ [][C20_RestartStep]_vars

(* C20's case: a finished game restarted with R; the new game runs        *)
C20_Witness ==
    /\ hist.built = "reset"
    /\ ~paused /\ ~game_over
    /\ snake = SnakeDefault

====
